---------------------------- MODULE Spec2Model ----------------------------
(***************************************************************************)
(* Model of the SOD dashboard script (src/app.py).                         *)
(*                                                                         *)
(* The script is a Streamlit application: every user interaction of a      *)
(* browser session re-executes the whole script top to bottom against the  *)
(* session's widget state.  An action of the model is an interaction       *)
(* together with the script run it triggers, up to the point where the run *)
(* next touches state shared with the runs of other sessions: a run of the *)
(* dashboard page is two steps, one for each draw from numpy's process-    *)
(* wide random stream (lines 87 and 88), and a run of the curated page is  *)
(* one.  What a run puts on the page is recorded per session in `view`.    *)
(*                                                                         *)
(* Numbers.  Artifact values are integers.  Arrays of rationals are        *)
(* records [num, den] (the numerators over one common denominator), and    *)
(* arrays of non-negative reals are records [rad, den], entry i standing   *)
(* for sqrt(rad[i]) / den, so that square roots stay exact.                *)
(***************************************************************************)
EXTENDS Integers, Sequences, FiniteSets, TLC

VARIABLES
    file,      \* the curated artifact on disk, at PR018_NPY
    cache,     \* st.cache_data entries of load_pr018_xy, keyed by path
    rng,       \* position of numpy's process-wide random stream
    open,      \* open[s]: browser session s is connected
    pageSel,   \* pageSel[s]: widget state of the sidebar radio
    modeSel,   \* modeSel[s]: widget state of the "Analysis Mode" selectbox
    run,       \* run[s]: the script run of session s in progress, if any
    view       \* view[s]: what the current (else the last) run of s has rendered

vars == <<file, cache, rng, open, pageSel, modeSel, run, view>>

---------------------------------------------------------------------------
(* Bounds of the model *)

\* rows of a well-shaped artifact: 0..MaxN
MaxN == 3
\* samples of the sandbox series (stands for the 200 of np.linspace(0, 10, 200))
SandboxN == 3
\* length of the abstract random stream (positions 0..RngPeriod-1, cyclic)
RngPeriod == 4

\* the browser sessions served by the one process: two, the least that
\* interleave; sessions are interchangeable
Sessions == {1, 2}

\* values of column 0 and column 1 of the artifacts enumerated
XVals == {0, 1, 2}
YVals == {0, 1, 4}

---------------------------------------------------------------------------
(* Small helpers *)

None == << >>
Some(v) == <<v>>

Abs(n) == IF n < 0 THEN -n ELSE n

Zeros(n) == [i \in 1..n |-> 0]

RECURSIVE SeqsUpTo(_, _)
\* all sequences over S of length at most n
SeqsUpTo(S, n) ==
    IF n = 0 THEN { << >> }
    ELSE LET shorter == SeqsUpTo(S, n - 1)
         IN  shorter \cup { Append(q, v) : q \in { r \in shorter : Len(r) = n - 1 }, v \in S }

---------------------------------------------------------------------------
(* Program constants *)

PR018_NPY == "data/pr018/compensated_trajectory.npy"

Paths == { PR018_NPY }

PageOptions == << "SOD Dashboard", "Curated Case Studies" >>

ModeOptions == << "Sandbox (Exploratory)", "Curated Case Study (Read-Only)" >>

\* a widget that holds no state for the session
Unset == "<unset>"

\* st.sidebar.radio / st.selectbox: the stored selection, else the first option
WidgetValue(state, options) == IF state = Unset THEN options[1] ELSE state

---------------------------------------------------------------------------
(* The artifact file and numpy's decoding of it *)

\* an .npy file holding a numeric array: shape is the numpy shape tuple; data
\* holds the elements grouped by their first index (the rows of a rank-2 array)
ArrayFile(shape, data) == [kind |-> "array", shape |-> shape, data |-> data]

MissingFile == [kind |-> "missing", shape |-> << >>, data |-> << >>]

\* present, but no numeric array (a truncated file, pickled objects)
UndecodableFile == [kind |-> "undecodable", shape |-> << >>, data |-> << >>]

\* the array of shape (Len(rows), 2) with the given rows
XYFile(rows) == ArrayFile(<<Len(rows), 2>>, rows)

Exc(type, text, args) == [type |-> type, text |-> text, args |-> args]

Ok(v) == [ok |-> TRUE, value |-> v, exc |-> Exc("", "", << >>)]

Raise(e) == [ok |-> FALSE, value |-> << >>, exc |-> e]

\* np.load(npy_path, allow_pickle=False)
np_load(f) ==
    CASE f.kind = "missing" ->
            Raise(Exc("FileNotFoundError", "No such file or directory", << >>))
      [] f.kind = "undecodable" ->
            Raise(Exc("ValueError", "Cannot load file containing pickled data when allow_pickle=False", << >>))
      [] OTHER -> Ok([shape |-> f.shape, data |-> f.data])

\* arr.ndim
ndim(arr) == Len(arr.shape)

\* column j (0-based) of a rank-2 array
Column(arr, j) == [i \in 1..arr.shape[1] |-> arr.data[i][j + 1]]

\* np.arange(n) taken for the range 1..n
np_arange_from_one(n) == [i \in 1..n |-> i]

\* np.arange(n)
np_arange(n) == [i \in 1..n |-> i - 1]

\* an array of rationals with a common denominator
Rat(num, den) == [num |-> num, den |-> den]

\* pd.DataFrame(arr, columns=[...]): the column count must match the labels
pd_DataFrame(arr, columns) ==
    IF arr.shape[2] # Len(columns)
    THEN Raise(Exc("ValueError", "Shape of passed values, indices imply", <<arr.shape>>))
    ELSE Ok([columns |-> columns,
             x |-> Rat(Column(arr, 0), 1),
             y |-> Rat(Column(arr, 1), 1)])

\* df.insert(0, "t", values)
df_insert_t(df, values) ==
    [columns |-> <<"t">> \o df.columns, t |-> Rat(values, 1), x |-> df.x, y |-> df.y]

\* len(df)
df_len(df) == Len(df.x.num)

\* the shape test with the column count left out
ShapeRejected_rank_only(arr) == ndim(arr) # 2

\* the shape test of line 15, TRUE when the array is rejected
ShapeRejected(arr) == ndim(arr) # 2 \/ arr.shape[2] # 2

\* body of load_pr018_xy (without the cache decorator)
load_pr018_xy(f) ==
    LET r == np_load(f) IN
    IF ~r.ok THEN r
    ELSE LET arr == r.value IN
         IF ShapeRejected(arr)
         THEN Raise(Exc("ValueError", "Expected shape (N,2) for x,y; got", <<arr.shape>>))
         ELSE LET d == pd_DataFrame(arr, <<"x", "y">>) IN
              IF ~d.ok THEN d
              ELSE Ok(df_insert_t(d.value, np_arange(df_len(d.value))))

\* an entry of the st.cache_data store
NoEntry == << >>

\* a store that drops an entry once it has been read
CacheAfter_evicting(c, path, r) ==
    IF c[path] = NoEntry /\ r.ok THEN [c EXCEPT ![path] = Some(r.value)]
    ELSE [c EXCEPT ![path] = NoEntry]

\* what the store holds after a call of the decorated function returned r:
\* a value computed on a miss is stored, an exception is not, a hit leaves it
CacheAfter(c, path, r) ==
    IF c[path] = NoEntry /\ r.ok THEN [c EXCEPT ![path] = Some(r.value)] ELSE c

\* @st.cache_data: a hit returns (a copy of) the stored value and does not
\* run the body; a miss runs it
CachedCall(c, path, f) ==
    IF c[path] # NoEntry THEN Ok(c[path][1]) ELSE load_pr018_xy(f)

---------------------------------------------------------------------------
(* numpy's finite differences and the display proxies *)

\* a scalar spacing h = num / den
UnitStep == [num |-> 1, den |-> 1]

\* the spacing of a uniformly spaced coordinate array
StepOf(t) == [num |-> t.num[2] - t.num[1], den |-> t.den]

\* np.gradient raises ValueError below edge_order + 1 = 2 elements
GradientRaises(f) == Len(f.num) < 2

GradientExc ==
    Exc("ValueError", "Shape of array too small to calculate a numerical gradient", << >>)

\* twice the difference quotient's numerator at index i of a sequence of
\* length n >= 2: second-order central inside, first-order one-sided at the ends
Diff2(q, i) ==
    LET n == Len(q) IN
    IF i = 1 THEN 2 * (q[2] - q[1])
    ELSE IF i = n THEN 2 * (q[n] - q[n - 1])
    ELSE q[i + 1] - q[i - 1]

\* a gradient of forward differences (backward at the last index) throughout
np_gradient_one_sided(f, h) ==
    LET n == Len(f.num) IN
    Rat([i \in 1..n |-> 2 * (IF i = n THEN f.num[n] - f.num[n - 1]
                                     ELSE f.num[i + 1] - f.num[i]) * h.den],
        2 * f.den * h.num)

\* np.gradient(f, h) for Len(f) >= 2; np.gradient(f) is h = UnitStep
np_gradient(f, h) ==
    Rat([i \in 1..Len(f.num) |-> Diff2(f.num, i) * h.den], 2 * f.den * h.num)

\* an array of non-negative reals: entry i is sqrt(rad[i]) / den
Surd(rad, den) == [rad |-> rad, den |-> den]

\* np.sqrt(a*a + b*b), a and b over the same denominator
Hypot(a, b) ==
    Surd([i \in 1..Len(a.num) |-> a.num[i] * a.num[i] + b.num[i] * b.num[i]], a.den)

\* np.abs(a) + np.abs(b), a and b over the same denominator
AbsSum(a, b) ==
    Surd([i \in 1..Len(a.num) |-> (Abs(a.num[i]) + Abs(b.num[i])) * (Abs(a.num[i]) + Abs(b.num[i]))],
         a.den)

\* np.abs(a)
np_abs(a) == Surd([i \in 1..Len(a.num) |-> a.num[i] * a.num[i]], a.den)

\* lines 158-160: speed_proxy of the curated page
speed_proxy(df) ==
    LET dx == np_gradient(df.x, UnitStep)
        dy == np_gradient(df.y, UnitStep)
    IN  Hypot(dx, dy)

\* lines 167-169: curvature_proxy of the curated page
curvature_proxy(df) ==
    LET ddx == np_gradient(np_gradient(df.x, UnitStep), UnitStep)
        ddy == np_gradient(np_gradient(df.y, UnitStep), UnitStep)
    IN  Hypot(ddx, ddy)

\* a chart's data frame {"t": ..., <name>: values}
Series(t, values) == [t |-> t, values |-> values]

---------------------------------------------------------------------------
(* The sandbox placeholder series *)

\* 100 cos(10 k / 12) and 100 sin(10 k / 12), k = 0..12, rounded
Cos100 == << 100, 67, -10, -80, -98, -52, 28, 90, 93, 35, -46, -97, -84 >>
Sin100 == << 0, 74, 100, 60, -19, -85, -96, -43, 37, 94, 89, 26, -54 >>

\* np.linspace(0, 10, n): t[i] = 10 (i - 1) / (n - 1)
np_linspace(n) == Rat([i \in 1..n |-> 10 * (i - 1)], n - 1)

\* index into the tables of sample i of n (exact when n - 1 divides 12)
TableIndex(i, n) == ((12 * (i - 1)) \div (n - 1)) + 1

\* the standard normal draw at a stream position, in units of one deviation
NoiseAt(pos) == (pos % 3) - 1

\* np.random.randn(n) from stream position pos
randn(pos, n) == [i \in 1..n |-> NoiseAt((pos + i - 1) % RngPeriod)]

\* the stream position after n draws
Advance(pos, n) == (pos + n) % RngPeriod

\* line 87, in hundredths: x = cos(t) + 0.05 z
SandboxX(z) == Rat([i \in 1..SandboxN |-> Cos100[TableIndex(i, SandboxN)] + 5 * z[i]], 100)

\* line 88, in hundredths: y = sin(t) + 0.05 z
SandboxY(z) == Rat([i \in 1..SandboxN |-> Sin100[TableIndex(i, SandboxN)] + 5 * z[i]], 100)

\* lines 86 and 88-94: the three frames, given the x of line 87 and the
\* noise line 88 draws
Placeholder(x, zy) ==
    LET t  == np_linspace(SandboxN)
        y  == SandboxY(zy)
        h  == StepOf(t)
        speed == AbsSum(np_gradient(x, h), np_gradient(y, h))
        curvature == np_abs(np_gradient(np_gradient(y, h), h))
    IN  [traj |-> [columns |-> <<"t", "x", "y">>, t |-> t, x |-> x, y |-> y],
         speed |-> Series(t, speed),
         curvature |-> Series(t, curvature)]

\* what one call of np.random.randn(len(t)) can return
NoiseDraws == { randn(pos, SandboxN) : pos \in 0..(RngPeriod - 1) }

\* the placeholder frames by x and y noise, evaluated once
PlaceholderOf ==
    [x \in { SandboxX(z) : z \in NoiseDraws }, zy \in NoiseDraws |-> Placeholder(x, zy)]

---------------------------------------------------------------------------
(* One execution of the script *)

ReadOnlyWarning ==
    "Curated mode is read-only: uploads and analysis are disabled to prevent outcome forcing."

SkeletonInfo == "UI-only skeleton: Analyze does not run the engine yet."

ArtifactErrorText == "PR-018 artifact missing or unreadable: "

\* is_curated with the comparison lost: nothing is ever locked
is_curated_never(mode) == FALSE

\* line 58
is_curated(mode) == (mode = "Curated Case Study (Read-Only)")

\* lines 52-80: the left column of the dashboard page
Inputs(mode, clicked) ==
    [mode |-> mode,
     uploadDisabled |-> is_curated(mode),
     analyzeDisabled |-> is_curated(mode),
     analyze_clicked |-> clicked,
     notice |-> IF is_curated(mode)
                THEN [kind |-> "warning", text |-> ReadOnlyWarning]
                ELSE [kind |-> "info", text |-> SkeletonInfo]]

\* nothing rendered: the page of a session that is not connected
BlankView ==
    [page |-> "", guardrails |-> FALSE, inputs |-> None, error |-> None,
     trajSource |-> "", traj |-> None, speed |-> None, curvature |-> None,
     timeline |-> FALSE, exports |-> FALSE, fault |-> None]

\* lines 21-80: what a run of the "SOD Dashboard" page has rendered when it
\* reaches the right column
DashboardInputsView(mode, clicked) ==
    [BlankView EXCEPT !.page = "SOD Dashboard", !.guardrails = TRUE,
                      !.inputs = Some(Inputs(mode, clicked))]

\* lines 82-122: the charts, the timeline and the exports added to it
DashboardView(v, ph) ==
    [v EXCEPT !.trajSource = "placeholder", !.traj = Some(ph.traj),
              !.speed = Some(ph.speed), !.curvature = Some(ph.curvature),
              !.timeline = TRUE, !.exports = TRUE]

\* lines 127-175: the "Curated Case Studies" page, given what the cached
\* loader returned
CuratedView(r) ==
    LET base == [BlankView EXCEPT !.page = "Curated Case Studies", !.guardrails = TRUE] IN
    IF ~r.ok
    THEN \* lines 147-149: st.error, then st.stop()
         [base EXCEPT !.error = Some([text |-> ArtifactErrorText, path |-> PR018_NPY, exc |-> r.exc])]
    ELSE LET df      == r.value
             plotted == [base EXCEPT !.trajSource = "artifact", !.traj = Some(df)]
         IN  IF GradientRaises(df.x)
             THEN \* line 158 raises; nothing catches it
                  [plotted EXCEPT !.fault = Some(GradientExc)]
             ELSE [plotted EXCEPT !.speed = Some(Series(df.t, speed_proxy(df))),
                                  !.curvature = Some(Series(df.t, curvature_proxy(df))),
                                  !.timeline = TRUE]

\* lines 127-175 run for a session: the cached load and the page it renders
CuratedRun(f, c) ==
    LET r == CachedCall(c, PR018_NPY, f)
        v == CuratedView(r)
    IN  [halted |-> (v.error # None \/ v.fault # None),
         view |-> v, cache |-> CacheAfter(c, PR018_NPY, r)]

---------------------------------------------------------------------------
(* The artifacts enumerated *)

\* shapes the loader must reject
BadShapes == { << >>, <<10>>, <<10, 3>>, <<5, 3>>, <<3, 1>>, <<2, 2, 2>> }

\* an all-zero array of a given shape
ZeroFile(shape) ==
    LET rows == IF Len(shape) = 0 THEN 1 ELSE shape[1]
        cols == IF Len(shape) < 2 THEN 1
                ELSE IF Len(shape) = 2 THEN shape[2] ELSE shape[2] * shape[3]
    IN  ArrayFile(shape, [i \in 1..rows |-> Zeros(cols)])

BadArtifacts == { ZeroFile(sh) : sh \in BadShapes }

\* every array of shape (N, 2), N <= MaxN, over the values enumerated
XYArtifacts == { XYFile(rows) : rows \in SeqsUpTo(XVals \X YVals, MaxN) }

AllArtifacts == XYArtifacts \cup BadArtifacts \cup { MissingFile, UndecodableFile }

\* the cases of the interface: no file, a wrong shape, and 0, 1 and 3 rows
SampleArtifacts ==
    { MissingFile, ZeroFile(<<5, 3>>), XYFile(<< >>), XYFile(<< <<1, 1>> >>),
      XYFile(<< <<0, 0>>, <<1, 1>>, <<2, 4>> >>) }

---------------------------------------------------------------------------
(* Actions: one user interaction and the script run it triggers *)

\* no script run of session s is in progress
Idle(s) == run[s] = None

\* Start the script for session s with its widgets holding pg and md.
\*
\* Each session's script runs in a thread of its own, and numpy's random
\* stream is shared by the process: the draw of line 87 and the draw of
\* line 88 are two calls, and draws of other sessions may fall between
\* them.  A dashboard run is therefore two steps: this one reads the widgets
\* and executes up to line 87 (the guardrail panel and the inputs are on
\* the page), FinishRun executes from line 88 on.  The
\* script does not return to the runtime between the two lines, so no
\* interaction of the same session is served there.
\*
\* A run of the curated page touches no shared state but the cache, whose
\* lookup, computation and store the runtime serialises per key: one step.
\* Widgets a run rendered keep their value.  The mode selector exists only
\* on the dashboard page (line 48): a run that completes without rendering
\* it makes the runtime discard its state; after a run halted by st.stop()
\* or by an uncaught exception the runtime, depending on its release, keeps
\* or discards it.
Interact(s, pg, md, clicked) ==
    LET page == WidgetValue(pg, PageOptions) IN
    /\ pageSel' = [pageSel EXCEPT ![s] = page]
    /\ IF page = "SOD Dashboard"
       THEN LET mode == WidgetValue(md, ModeOptions) IN
            /\ modeSel' = [modeSel EXCEPT ![s] = mode]
            /\ view' = [view EXCEPT ![s] = DashboardInputsView(mode, clicked)]
            /\ run' = [run EXCEPT ![s] = Some([x |-> SandboxX(randn(rng, SandboxN))])]
            /\ rng' = Advance(rng, SandboxN)
            /\ UNCHANGED <<file, cache>>
       ELSE LET r == CuratedRun(file, cache) IN
            /\ view' = [view EXCEPT ![s] = r.view]
            /\ cache' = r.cache
            /\ \E kept \in (IF r.halted THEN BOOLEAN ELSE {FALSE}) :
                  modeSel' = [modeSel EXCEPT ![s] = IF kept THEN md ELSE Unset]
            /\ UNCHANGED <<file, rng, run>>

\* lines 88-122: the dashboard run of session s draws the y noise and
\* renders the page
FinishRun(s) ==
    /\ run[s] # None
    /\ LET ph == PlaceholderOf[run[s][1].x, randn(rng, SandboxN)]
       IN  view' = [view EXCEPT ![s] = DashboardView(view[s], ph)]
    /\ rng' = Advance(rng, SandboxN)
    /\ run' = [run EXCEPT ![s] = None]
    /\ UNCHANGED <<file, cache, open, pageSel, modeSel>>

OnDashboard(s) == open[s] /\ Idle(s) /\ view[s].page = "SOD Dashboard"

\* a browser connects: a new session, every widget at its default
Connect(s) ==
    /\ ~open[s]
    /\ open' = [open EXCEPT ![s] = TRUE]
    /\ Interact(s, Unset, Unset, FALSE)

\* the browser tab is closed or reloaded: the session and its state are gone
Disconnect(s) ==
    /\ open[s]
    /\ Idle(s)
    /\ open' = [open EXCEPT ![s] = FALSE]
    /\ pageSel' = [pageSel EXCEPT ![s] = Unset]
    /\ modeSel' = [modeSel EXCEPT ![s] = Unset]
    /\ view' = [view EXCEPT ![s] = BlankView]
    /\ UNCHANGED <<file, cache, rng, run>>

\* line 22: the sidebar radio is set to another page
Navigate(s, p) ==
    /\ open[s]
    /\ Idle(s)
    /\ p # pageSel[s]
    /\ Interact(s, p, modeSel[s], FALSE)
    /\ UNCHANGED open

\* lines 54-57: the mode selector is set to another mode
SelectMode(s, m) ==
    /\ OnDashboard(s)
    /\ m # modeSel[s]
    /\ Interact(s, pageSel[s], m, FALSE)
    /\ UNCHANGED open

\* lines 60-64: a file is put into (or removed from) the uploader; the
\* script never reads the value
Upload(s) ==
    /\ OnDashboard(s)
    /\ ~view[s].inputs[1].uploadDisabled
    /\ Interact(s, pageSel[s], modeSel[s], FALSE)
    /\ UNCHANGED open

\* lines 67-72: the Analyze button is clicked; the script never reads the
\* value
Analyze(s) ==
    /\ OnDashboard(s)
    /\ ~view[s].inputs[1].analyzeDisabled
    /\ Interact(s, pageSel[s], modeSel[s], TRUE)
    /\ UNCHANGED open

\* line 114: the engine label is edited; the script never reads the value
EditEngineLabel(s) ==
    /\ OnDashboard(s)
    /\ Interact(s, pageSel[s], modeSel[s], FALSE)
    /\ UNCHANGED open

\* lines 118-120: one of the download buttons is clicked
Download(s) ==
    /\ OnDashboard(s)
    /\ Interact(s, pageSel[s], modeSel[s], FALSE)
    /\ UNCHANGED open

\* the user asks for a rerun of the script
Rerun(s) ==
    /\ open[s]
    /\ Idle(s)
    /\ Interact(s, pageSel[s], modeSel[s], FALSE)
    /\ UNCHANGED open

---------------------------------------------------------------------------
(* Specifications *)

InitWith(files) ==
    /\ file \in files
    /\ cache = [p \in Paths |-> NoEntry]
    /\ rng \in 0..(RngPeriod - 1)
    /\ open = [s \in Sessions |-> FALSE]
    /\ pageSel = [s \in Sessions |-> Unset]
    /\ modeSel = [s \in Sessions |-> Unset]
    /\ run = [s \in Sessions |-> None]
    /\ view = [s \in Sessions |-> BlankView]

Init == InitWith(SampleArtifacts)

Next ==
    \E s \in Sessions :
        \/ Connect(s)
        \/ Disconnect(s)
        \/ \E p \in { PageOptions[i] : i \in 1..Len(PageOptions) } : Navigate(s, p)
        \/ \E m \in { ModeOptions[i] : i \in 1..Len(ModeOptions) } : SelectMode(s, m)
        \/ Upload(s)
        \/ Analyze(s)
        \/ EditEngineLabel(s)
        \/ Download(s)
        \/ Rerun(s)
        \/ FinishRun(s)

\* the interface, several sessions, over the sample artifacts
Spec == Init /\ [][Next]_vars

InitLoad == InitWith(AllArtifacts)

\* one session walking between the pages
NextLoad ==
    \/ Connect(1)
    \/ Disconnect(1)
    \/ \E p \in { PageOptions[i] : i \in 1..Len(PageOptions) } : Navigate(1, p)
    \/ Rerun(1)
    \/ FinishRun(1)

\* the loader and the proxies, over every artifact enumerated
SpecLoad == InitLoad /\ [][NextLoad]_vars

---------------------------------------------------------------------------
(* Vocabulary of the claims *)

Sandbox == ModeOptions[1]

CuratedReadOnly == ModeOptions[2]

DashboardPage == PageOptions[1]

CuratedPage == PageOptions[2]

\* the mode the selector of session s holds
ModeOf(s) == WidgetValue(modeSel[s], ModeOptions)

\* every entry of an array of reals is zero, and there are n of them
AllZero(r, n) == Len(r.rad) = n /\ \A i \in 1..n : r.rad[i] = 0

\* rows (0,0), (1,1), (2,4)
Parabola == << <<0, 0>>, <<1, 1>>, <<2, 4>> >>

\* the rows of a rendered artifact frame
RowsOf(df) == [i \in 1..Len(df.x.num) |-> <<df.x.num[i], df.y.num[i]>>]

---------------------------------------------------------------------------
(* C1 *)

\* C1: in every display request that renders the inputs, upload and analyze
\* are disabled exactly when the mode is CuratedReadOnly: in CuratedReadOnly
\* both are disabled and the read-only warning is shown; in Sandbox both are
\* enabled and the "Analyze does not run the engine yet" notice is shown,
\* whether or not Analyze was clicked.
C1_ModeGatesActions ==
    \A s \in Sessions :
        view[s].page = DashboardPage =>
            /\ view[s].inputs # None
            /\ LET i == view[s].inputs[1] IN
               /\ i.mode \in { Sandbox, CuratedReadOnly }
               /\ i.uploadDisabled <=> (i.mode = CuratedReadOnly)
               /\ i.analyzeDisabled <=> (i.mode = CuratedReadOnly)
               /\ i.mode = CuratedReadOnly =>
                      i.notice = [kind |-> "warning", text |-> ReadOnlyWarning]
               /\ i.mode = Sandbox =>
                      i.notice = [kind |-> "info", text |-> SkeletonInfo]

\* one session shows the locked inputs while another, in Sandbox, has just
\* clicked Analyze
C1_Witness ==
    \E s1, s2 \in Sessions :
        /\ view[s1].page = DashboardPage
        /\ view[s1].inputs[1].mode = CuratedReadOnly
        /\ view[s1].inputs[1].uploadDisabled
        /\ view[s1].inputs[1].analyzeDisabled
        /\ view[s2].page = DashboardPage
        /\ view[s2].inputs[1].mode = Sandbox
        /\ view[s2].inputs[1].analyze_clicked
        /\ ~view[s2].inputs[1].analyzeDisabled

---------------------------------------------------------------------------
(* C2 *)

\* C2: in no display request where the mode is CuratedReadOnly, or where the
\* curated case-study page is selected, are the rendered series the sandbox
\* placeholder ones.
C2_NoPlaceholderWhenCurated ==
    \A s \in Sessions :
        (\/ view[s].page = CuratedPage
         \/ (view[s].inputs # None /\ view[s].inputs[1].mode = CuratedReadOnly))
        => view[s].trajSource # "placeholder"

---------------------------------------------------------------------------
(* C3 *)

\* C3: when the load fails, an inline error naming the artifact path is
\* shown, the trajectory, speed and curvature charts are suppressed, and the
\* guardrail panel, the mode selector and the remaining sections (the
\* segmentation timeline) are still rendered in that request.
C3_LoadFailureIsLocal ==
    \A s \in Sessions :
        view[s].error # None =>
            /\ view[s].error[1].path = PR018_NPY
            /\ view[s].traj = None
            /\ view[s].speed = None
            /\ view[s].curvature = None
            /\ view[s].guardrails
            /\ view[s].inputs # None
            /\ view[s].timeline

---------------------------------------------------------------------------
(* C4 *)

\* C4: for a loaded series of N samples no fault ends the request; for N < 2
\* the speed proxy is N zeros and for N < 3 the curvature proxy is N zeros.
C4_ProxyNeverFails ==
    \A s \in Sessions :
        view[s].trajSource = "artifact" =>
            LET n == df_len(view[s].traj[1]) IN
            /\ view[s].fault = None
            /\ n < 2 => (view[s].speed # None /\ AllZero(view[s].speed[1].values, n))
            /\ n < 3 => (view[s].curvature # None /\ AllZero(view[s].curvature[1].values, n))

---------------------------------------------------------------------------
(* C7 *)

\* C7: for every rendered series of N samples, N >= 0, the speed and the
\* curvature series have N entries each, paired with the t values of the
\* source series.
C7_ProxyLengths ==
    \A s \in Sessions :
        view[s].traj # None =>
            LET df == view[s].traj[1] IN
            /\ view[s].speed # None
            /\ view[s].curvature # None
            /\ Len(view[s].speed[1].values.rad) = df_len(df)
            /\ Len(view[s].curvature[1].values.rad) = df_len(df)
            /\ view[s].speed[1].t = df.t
            /\ view[s].curvature[1].t = df.t

---------------------------------------------------------------------------
(* C5 *)

\* the artifact on disk is an array of shape (N, 2)
WellShaped == file.kind = "array" /\ Len(file.shape) = 2 /\ file.shape[2] = 2

\* C5: for every decoded array of shape (N, 2), N >= 0, the load succeeds and
\* the series has exactly N samples in row order, with t = 0, 1, ..., N-1,
\* x = column 0 and y = column 1.
C5_LoadShape ==
    \A s \in Sessions :
        (view[s].page = CuratedPage /\ WellShaped) =>
            /\ view[s].error = None
            /\ view[s].traj # None
            /\ LET df == view[s].traj[1]
                   n  == file.shape[1]
               IN  /\ df.columns = <<"t", "x", "y">>
                   /\ Len(df.t.num) = n /\ Len(df.x.num) = n /\ Len(df.y.num) = n
                   /\ df.t.den = 1 /\ df.x.den = 1 /\ df.y.den = 1
                   /\ \A i \in 1..n :
                        /\ df.t.num[i] = i - 1
                        /\ df.x.num[i] = file.data[i][1]
                        /\ df.y.num[i] = file.data[i][2]
                   /\ \A i \in 1..(n - 1) : df.t.num[i] < df.t.num[i + 1]

\* the three-row artifact (0,0), (1,1), (2,4) has been loaded and plotted
C5_Witness ==
    \E s \in Sessions :
        /\ view[s].page = CuratedPage
        /\ file = XYFile(Parabola)
        /\ view[s].traj # None
        /\ view[s].traj[1].t.num = <<0, 1, 2>>
        /\ view[s].traj[1].x.num = <<0, 1, 2>>
        /\ view[s].traj[1].y.num = <<0, 1, 4>>

---------------------------------------------------------------------------
(* C6 *)

\* the artifact on disk decodes to an array that is not of shape (N, 2)
IllShaped == file.kind = "array" /\ (Len(file.shape) # 2 \/ file.shape[2] # 2)

\* C6: for every decoded array whose rank is not 2 or whose column count is
\* not 2 the load raises the shape error, whose message carries the
\* offending shape, and produces no series.
C6_ShapeError ==
    \A s \in Sessions :
        (view[s].page = CuratedPage /\ IllShaped) =>
            /\ view[s].error # None
            /\ view[s].error[1].exc.type = "ValueError"
            /\ view[s].error[1].exc.text = "Expected shape (N,2) for x,y; got"
            /\ view[s].error[1].exc.args = <<file.shape>>
            /\ view[s].traj = None
            /\ cache[PR018_NPY] = NoEntry

\* the artifact of shape (5, 3) has been rejected with its shape in the message
C6_Witness ==
    \E s \in Sessions :
        /\ view[s].page = CuratedPage
        /\ file.kind = "array" /\ file.shape = <<5, 3>>
        /\ view[s].error # None
        /\ view[s].error[1].exc.args = << <<5, 3>> >>

---------------------------------------------------------------------------
(* C8 *)

\* The finite difference of the claim, doubled: central at interior indices,
\* forward at the first index and backward at the last.
FD(q) ==
    [i \in 1..Len(q) |->
        IF i = 1 THEN 2 * (q[2] - q[1])
        ELSE IF i = Len(q) THEN 2 * (q[Len(q)] - q[Len(q) - 1])
        ELSE q[i + 1] - q[i - 1]]

\* sqrt(dx^2 + dy^2), d taken along the series' own t axis (step h):
\* d = FD / (2 h), over the denominator 2 * den * h
ClaimedSpeed(df) ==
    LET h  == StepOf(df.t)
        dx == FD(df.x.num)
        dy == FD(df.y.num)
    IN  Surd([i \in 1..Len(dx) |-> (dx[i] * h.den) * (dx[i] * h.den) + (dy[i] * h.den) * (dy[i] * h.den)],
             2 * df.x.den * h.num)

\* sqrt(ddx^2 + ddy^2), dd the same operator applied twice
ClaimedCurvature(df) ==
    LET h   == StepOf(df.t)
        ddx == FD(FD(df.x.num))
        ddy == FD(FD(df.y.num))
        k   == h.den * h.den
    IN  Surd([i \in 1..Len(ddx) |-> (ddx[i] * k) * (ddx[i] * k) + (ddy[i] * k) * (ddy[i] * k)],
             4 * df.x.den * h.num * h.num)

\* |dx/dt| + |dy/dt|
PlaceholderSpeed(df) ==
    LET h  == StepOf(df.t)
        dx == FD(df.x.num)
        dy == FD(df.y.num)
    IN  Surd([i \in 1..Len(dx) |->
                 (Abs(dx[i]) + Abs(dy[i])) * h.den * ((Abs(dx[i]) + Abs(dy[i])) * h.den)],
             2 * df.x.den * h.num)

\* |d2y/dt2|
PlaceholderCurvature(df) ==
    LET h   == StepOf(df.t)
        ddy == FD(FD(df.y.num))
        k   == h.den * h.den
    IN  Surd([i \in 1..Len(ddy) |-> (ddy[i] * k) * (ddy[i] * k)],
             4 * df.x.den * h.num * h.num)

\* x and y are constant along the series
IsConstant(df) ==
    \A i \in 1..df_len(df) : df.x.num[i] = df.x.num[1] /\ df.y.num[i] = df.y.num[1]

\* C8 as claimed: for every rendered series with proxies, from the Loader or
\* from the Generator, the speed is sqrt(dx^2 + dy^2) and the curvature is
\* sqrt(ddx^2 + ddy^2) at each index.
C8_EverySeriesUsesTheProxy ==
    \A s \in Sessions :
        view[s].speed # None =>
            /\ view[s].speed[1].values = ClaimedSpeed(view[s].traj[1])
            /\ view[s].curvature[1].values = ClaimedCurvature(view[s].traj[1])

\* C8 as amended: for every series produced by the Loader with N >= 2 samples
\* the speed is sqrt(dx^2 + dy^2) and the curvature sqrt(ddx^2 + ddy^2) at
\* each index, one value per t (a constant series gives 0 everywhere, the
\* rows (0,0),(1,1),(2,4) a nonzero curvature at the interior index); for
\* N < 2 no proxy value is produced; the series of the Generator gets
\* |dx/dt| + |dy/dt| and |d2y/dt2| instead.
C8_LoaderSeriesUsesTheProxy ==
    \A s \in Sessions :
        /\ view[s].trajSource = "artifact" =>
              LET df == view[s].traj[1] IN
              IF df_len(df) < 2
              THEN view[s].speed = None /\ view[s].curvature = None
              ELSE /\ view[s].speed = Some(Series(df.t, ClaimedSpeed(df)))
                   /\ view[s].curvature = Some(Series(df.t, ClaimedCurvature(df)))
                   /\ IsConstant(df) =>
                         /\ AllZero(view[s].speed[1].values, df_len(df))
                         /\ AllZero(view[s].curvature[1].values, df_len(df))
                   /\ RowsOf(df) = Parabola => view[s].curvature[1].values.rad[2] # 0
        /\ view[s].trajSource = "placeholder" =>
              LET df == view[s].traj[1] IN
              /\ view[s].speed = Some(Series(df.t, PlaceholderSpeed(df)))
              /\ view[s].curvature = Some(Series(df.t, PlaceholderCurvature(df)))

\* the proxies of the rows (0,0), (1,1), (2,4) are on the page: speeds
\* sqrt(2), sqrt(5), sqrt(10) and curvature 1 at every index
C8_Witness ==
    \E s \in Sessions :
        /\ view[s].trajSource = "artifact"
        /\ RowsOf(view[s].traj[1]) = Parabola
        /\ view[s].speed # None
        /\ view[s].speed[1].values = Surd(<<8, 20, 40>>, 2)
        /\ view[s].curvature[1].values = Surd(<<16, 16, 16>>, 4)

---------------------------------------------------------------------------
(* C9 *)

\* C9: the mode of a session starts as Sandbox, is always one of Sandbox and
\* CuratedReadOnly, changes only in a step that is an explicit selection of
\* the mode, and no run of the page holding the controller fails.
C9_ModeChangesOnlyBySelection ==
    [][\A s \in Sessions :
          /\ (~open[s] /\ open'[s]) => ModeOf(s)' = Sandbox
          /\ ModeOf(s)' \in { Sandbox, CuratedReadOnly }
          /\ (open[s] /\ open'[s] /\ ModeOf(s)' # ModeOf(s)) =>
                \E m \in { Sandbox, CuratedReadOnly } : SelectMode(s, m)
          /\ view'[s].page = DashboardPage =>
                (view'[s].error = None /\ view'[s].fault = None)]_vars

---------------------------------------------------------------------------
(* C10 *)

\* C10: over any interleaving of the requests of the sessions, an entry of
\* the cache, once populated, is never modified; every session that shows the
\* artifact of a populated path shows a series equal to the entry, that is,
\* to what the first load returned; and the artifact file is never written.
C10_CacheWriteOnce ==
    [][/\ file' = file
       /\ \A p \in Paths :
            /\ cache[p] # NoEntry => cache'[p] = cache[p]
            /\ cache[p] # NoEntry =>
                 \A s \in Sessions :
                    (open'[s] /\ view'[s].page = CuratedPage) =>
                        (view'[s].error = None /\ view'[s].traj = cache[p])
            /\ (cache[p] = NoEntry /\ cache'[p] # NoEntry) =>
                 \E s \in Sessions : view'[s].traj = cache'[p] /\ view'[s] # view[s]]_vars

\* two sessions show the three-row artifact, both equal to the one entry
C10_Witness ==
    \E s1, s2 \in Sessions :
        /\ s1 # s2
        /\ cache[PR018_NPY] # NoEntry
        /\ RowsOf(cache[PR018_NPY][1]) = Parabola
        /\ view[s1].page = CuratedPage /\ view[s1].traj = cache[PR018_NPY]
        /\ view[s2].page = CuratedPage /\ view[s2].traj = cache[PR018_NPY]

=============================================================================
